---- MODULE Spec2Model ----
(***************************************************************************)
(* Model of the chat-history-manager backend:                              *)
(*   - the gRPC request processor and the registry of loaded DAOs          *)
(*     (backend/src/grpc/server.rs), run by a pool of request threads;     *)
(*   - the single-chat Telegram parse and its myself chooser               *)
(*     (src/json/telegram/parser_single.rs, backend/src/grpc/client.rs);   *)
(*   - the entity helpers (src/utils/entity_utils.rs): User::pretty_name,  *)
(*     DatasetRoot, Message::new and the searchable string.                *)
(***************************************************************************)
EXTENDS Integers, Sequences, FiniteSets, TLC

VARIABLES
    \* ---- ChatHistoryManagerServer (server.rs:33-37) ----
    loaded_daos,    \* RwLock<IndexMap<DaoKey, DaoMutex>>: the map, in insertion order
    rw_readers,     \* threads holding a read guard of loaded_daos
    rw_poisoned,    \* poison flag of the RwLock
    writer_pref,    \* the RwLock's priority policy (std leaves it to the platform)
    \* ---- one request thread each ----
    pc,             \* position of the thread in its request
    kind,           \* which handler the request runs
    key,            \* the DaoKey of the request
    status,         \* the TonicResult returned (NoStatus until then)
    calls,          \* how often the caller-supplied logic (or the Loader) was invoked
    requests,       \* requests accepted so far
    \* ---- parser_single::parse ----
    ppc,            \* position inside parse
    chat_ok,        \* input: whether parse_chat succeeds on root_obj
    chat_some,      \* input: whether the parsed cwm carries a chat (cwm.chat is an Option)
    chat_users,     \* input: the users parse_chat finds, in id_to_user order
    chooser,        \* input: the myself chooser and what its remote side answers
    users,          \* the local `users` of parse
    cwms,           \* the local `chats_with_messages` of parse
    myself,         \* the caller's `myself` accumulator
    myself0,        \* `myself` as it was when parse was called
    chooser_calls,  \* how often the myself chooser was called
    chooser_arg,    \* the candidates the chooser was called with
    myself_idx,     \* the local `myself_idx` of parse (-1 until the chooser answered)
    presult,        \* what parse returned
    \* ---- entity_utils: one call of one helper ----
    ucall,          \* the helper that was called ("none" before the call)
    uargs,          \* the arguments it was called with, by their names in the source
    uret            \* what it returned (or that it panicked)

server_vars == <<loaded_daos, rw_readers, rw_poisoned, writer_pref,
                 pc, kind, key, status, calls, requests>>
parse_vars == <<ppc, chat_ok, chat_some, chat_users, chooser, users, cwms, myself, myself0,
                chooser_calls, chooser_arg, myself_idx, presult>>
entity_vars == <<ucall, uargs, uret>>
vars == <<server_vars, parse_vars, entity_vars>>

----------------------------------------------------------------------------
(* Bounds of the model *)

\* requests accepted in one run
MaxRequests == 5
\* users one chat file mentions
MaxUsers == 2

\* the request threads of the server
Threads == {1, 2, 3}
NoThread == 0

\* DaoKey values: two textual paths to one directory
Keys == {"/a/ds", "/a/./ds"}
NoKey == ""

\* errors (anyhow::Error, by their text) the caller-supplied logic can return
Errors == {[msg |-> "no such chat"], [msg |-> "disk failure"]}

\* the error of a load whose myself chooser is the NoChooser
LoaderError == [msg |-> "No way to choose myself!"]

Kinds == {"dao", "free", "load", "unload"}

----------------------------------------------------------------------------
(* tonic::Status values built by the request processor *)

NoStatus == [code |-> "none", message |-> ""]

OkResponse == [code |-> "Ok", message |-> ""]

\* the prelude's rendering of an error: the text of the error it is given
error_to_string(err) == err.msg

\* (mutant) the error is returned as Code::Unknown
UnknownStatus(err) == [code |-> "Unknown", message |-> error_to_string(err)]

InternalStatus(err) == [code |-> "Internal", message |-> error_to_string(err)]

\* (mutant) the missing key is reported as Code::NotFound
NotFoundStatus(k) ==
    [code |-> "NotFound",
     message |-> "Database with key " \o k \o " is not loaded!"]

NotLoadedStatus(k) ==
    [code |-> "FailedPrecondition",
     message |-> "Database with key " \o k \o " is not loaded!"]

MutexPoisonedStatus == [code |-> "Internal", message |-> "Mutex is poisoned!"]

RwLockPoisonedStatus == [code |-> "Internal", message |-> "RwLock is poisoned!"]

----------------------------------------------------------------------------
(* The IndexMap and its locks *)

KeysOf(map) == {map[i].key : i \in 1..Len(map)}

\* the directory a key names
Canonical(k) == IF k = "/a/./ds" THEN "/a/ds" ELSE k

\* (mutant) the lookup canonicalizes the paths it compares
get_canonical(map, k) ==
    IF \E i \in 1..Len(map) : Canonical(map[i].key) = Canonical(k)
    THEN CHOOSE i \in 1..Len(map) : Canonical(map[i].key) = Canonical(k)
    ELSE 0

\* IndexMap::get: the position of the entry stored under exactly this key, 0 if none
get(map, k) ==
    IF \E i \in 1..Len(map) : map[i].key = k
    THEN CHOOSE i \in 1..Len(map) : map[i].key = k
    ELSE 0

\* a fresh DaoMutex around a loaded dao
NewDaoMutex(k) == [key |-> k, locked_by |-> NoThread, poisoned |-> FALSE]

\* IndexMap::insert of a key that is absent: appended last
insert(map, k) == Append(map, NewDaoMutex(k))

\* IndexMap::shift_remove: the entry leaves, the order of the others stays
remove(map, k) == SelectSeq(map, LAMBDA e : e.key # k)

\* (mutant) the lock does not exclude
MutexFree_Always(entry) == TRUE

\* Mutex::lock returns only when nobody holds the mutex
MutexFree(entry) == entry.locked_by = NoThread

\* (mutant) the poison is cleared with PoisonError::into_inner
lock_or_status_recover(entry) == [code |-> "Ok", message |-> ""]

\* lock_or_status: a poisoned mutex gives the Internal status instead of a guard
lock_or_status(entry) == IF entry.poisoned THEN MutexPoisonedStatus ELSE OkResponse

\* read_or_status / write_or_status: a poisoned RwLock gives the Internal status
read_or_status(poisoned) == IF poisoned THEN RwLockPoisonedStatus ELSE OkResponse

write_or_status(poisoned) == IF poisoned THEN RwLockPoisonedStatus ELSE OkResponse

\* threads blocked in RwLock::write
WaitingWriters == {t \in Threads : pc[t] = "write"}

\* RwLock::read returns when no writer holds the lock and, under a
\* writer-preferring policy, no writer is waiting for it
CanRead == ~writer_pref \/ WaitingWriters = {}

\* RwLock::write returns when nobody holds the lock
CanWrite == rw_readers = {}

\* (mutant) the MutexGuard is leaked: the mutex stays locked
Unlock_Leak(map, t, poison) == map

\* the guards a dataset-scoped request drops when it returns or unwinds
Unlock(map, t, poison) ==
    [i \in 1..Len(map) |->
        IF map[i].locked_by = t
        THEN [map[i] EXCEPT !.locked_by = NoThread, !.poisoned = @ \/ poison]
        ELSE map[i]]

----------------------------------------------------------------------------
(* Requests *)

Finish(t, st) ==
    /\ pc' = [pc EXCEPT ![t] = "done"]
    /\ status' = [status EXCEPT ![t] = st]

\* a request arrives on a thread that has no request in progress and enters its handler
Begin(t) ==
    /\ pc[t] \in {"idle", "done", "panicked"}
    /\ requests < MaxRequests
    /\ requests' = requests + 1
    /\ status' = [status EXCEPT ![t] = NoStatus]
    /\ \E kd \in Kinds :
         /\ kind' = [kind EXCEPT ![t] = kd]
         /\ IF kd = "free"
            THEN /\ key' = [key EXCEPT ![t] = NoKey]
                 /\ pc' = [pc EXCEPT ![t] = "logic"]
                 /\ calls' = [calls EXCEPT ![t] = 1]
            ELSE /\ \E k \in Keys : key' = [key EXCEPT ![t] = k]
                 /\ pc' = [pc EXCEPT ![t] = IF kd = "dao" THEN "read" ELSE "write"]
                 /\ calls' = [calls EXCEPT ![t] = 0]
    /\ UNCHANGED <<loaded_daos, rw_readers, rw_poisoned, writer_pref>>

\* process_request_with_dao, line 80: read_or_status(&self.loaded_daos)?
ReadOrStatus(t) ==
    /\ pc[t] = "read"
    /\ CanRead
    /\ IF read_or_status(rw_poisoned).code = "Ok"
       THEN /\ rw_readers' = rw_readers \cup {t}
            /\ pc' = [pc EXCEPT ![t] = "get"]
            /\ status' = status
       ELSE /\ Finish(t, read_or_status(rw_poisoned))
            /\ rw_readers' = rw_readers
    /\ UNCHANGED <<loaded_daos, rw_poisoned, writer_pref, kind, key, calls, requests>>

\* process_request_with_dao, lines 81-83: loaded_daos.get(key).ok_or_else(...)?
Get(t) ==
    /\ pc[t] = "get"
    /\ IF get(loaded_daos, key[t]) # 0
       THEN /\ pc' = [pc EXCEPT ![t] = "lock"]
            /\ UNCHANGED <<status, rw_readers>>
       ELSE /\ Finish(t, NotLoadedStatus(key[t]))
            /\ rw_readers' = rw_readers \ {t}
    /\ UNCHANGED <<loaded_daos, rw_poisoned, writer_pref, kind, key, calls, requests>>

\* (mutant) the read guard of the map is dropped once the mutex is taken
LockOrStatus_DropGuard(t) ==
    /\ pc[t] = "lock"
    /\ LET i == get(loaded_daos, key[t]) IN
       /\ MutexFree(loaded_daos[i])
       /\ IF lock_or_status(loaded_daos[i]).code = "Ok"
          THEN /\ loaded_daos' = [loaded_daos EXCEPT ![i].locked_by = t]
               /\ pc' = [pc EXCEPT ![t] = "logic"]
               /\ calls' = [calls EXCEPT ![t] = @ + 1]
               /\ status' = status
          ELSE /\ Finish(t, lock_or_status(loaded_daos[i]))
               /\ UNCHANGED <<loaded_daos, calls>>
    /\ rw_readers' = rw_readers \ {t}
    /\ UNCHANGED <<rw_poisoned, writer_pref, kind, key, requests>>

\* process_request_with_dao, lines 84-87: lock_or_status(dao)?, then the logic starts
LockOrStatus(t) ==
    /\ pc[t] = "lock"
    /\ LET i == get(loaded_daos, key[t]) IN
       /\ MutexFree(loaded_daos[i])
       /\ IF lock_or_status(loaded_daos[i]).code = "Ok"
          THEN /\ loaded_daos' = [loaded_daos EXCEPT ![i].locked_by = t]
               /\ pc' = [pc EXCEPT ![t] = "logic"]
               /\ calls' = [calls EXCEPT ![t] = @ + 1]
               /\ UNCHANGED <<status, rw_readers>>
          ELSE /\ Finish(t, lock_or_status(loaded_daos[i]))
               /\ rw_readers' = rw_readers \ {t}
               /\ UNCHANGED <<loaded_daos, calls>>
    /\ UNCHANGED <<rw_poisoned, writer_pref, kind, key, requests>>

\* process_request, lines 67-73: the logic returned Ok
LogicOk(t) ==
    /\ pc[t] = "logic"
    /\ Finish(t, OkResponse)
    /\ loaded_daos' = Unlock(loaded_daos, t, FALSE)
    /\ rw_readers' = rw_readers \ {t}
    /\ UNCHANGED <<rw_poisoned, writer_pref, kind, key, calls, requests>>

\* (mutant) the error exit returns with the guards still held
LogicErr_KeepGuards(t) ==
    /\ pc[t] = "logic"
    /\ \E err \in Errors : Finish(t, InternalStatus(err))
    /\ UNCHANGED <<loaded_daos, rw_readers>>
    /\ UNCHANGED <<rw_poisoned, writer_pref, kind, key, calls, requests>>

\* process_request, lines 67-73: the logic returned an error
LogicErr(t) ==
    /\ pc[t] = "logic"
    /\ \E err \in Errors : Finish(t, InternalStatus(err))
    /\ loaded_daos' = Unlock(loaded_daos, t, FALSE)
    /\ rw_readers' = rw_readers \ {t}
    /\ UNCHANGED <<rw_poisoned, writer_pref, kind, key, calls, requests>>

\* the logic panicked: the unwinding drops the guards, the MutexGuard poisons its mutex
LogicPanic(t) ==
    /\ pc[t] = "logic"
    /\ pc' = [pc EXCEPT ![t] = "panicked"]
    /\ loaded_daos' = Unlock(loaded_daos, t, TRUE)
    /\ rw_readers' = rw_readers \ {t}
    /\ UNCHANGED <<rw_poisoned, writer_pref, kind, key, status, calls, requests>>

\* the logic called the myself chooser and the remote side never answers
LogicStall(t) ==
    /\ pc[t] = "logic"
    /\ pc' = [pc EXCEPT ![t] = "stalled"]
    /\ UNCHANGED <<loaded_daos, rw_readers, rw_poisoned, writer_pref, kind, key,
                   status, calls, requests>>

\* (mutant) the Loader runs without a look at the map
ResolveOrLoad_NoCheck(t) ==
    /\ pc[t] = "write"
    /\ kind[t] = "load"
    /\ CanWrite
    /\ calls' = [calls EXCEPT ![t] = @ + 1]
    /\ loaded_daos' = insert(loaded_daos, key[t])
    /\ Finish(t, OkResponse)
    /\ UNCHANGED <<rw_readers, rw_poisoned, writer_pref, kind, key, requests>>

\* Registry resolve_or_load under the write guard: the entry if present, else the
\* Loader runs and its dao is inserted
ResolveOrLoad(t) ==
    /\ pc[t] = "write"
    /\ kind[t] = "load"
    /\ CanWrite
    /\ IF write_or_status(rw_poisoned).code # "Ok"
       THEN /\ Finish(t, write_or_status(rw_poisoned))
            /\ UNCHANGED <<loaded_daos, calls>>
       ELSE IF get(loaded_daos, key[t]) # 0
       THEN /\ Finish(t, OkResponse)
            /\ UNCHANGED <<loaded_daos, calls>>
       ELSE /\ calls' = [calls EXCEPT ![t] = @ + 1]
            /\ \/ /\ loaded_daos' = insert(loaded_daos, key[t])
                  /\ Finish(t, OkResponse)
               \/ /\ Finish(t, InternalStatus(LoaderError))
                  /\ UNCHANGED loaded_daos
    /\ UNCHANGED <<rw_readers, rw_poisoned, writer_pref, kind, key, requests>>

\* Registry unload under the write guard: the entry is removed and dropped
Unload(t) ==
    /\ pc[t] = "write"
    /\ kind[t] = "unload"
    /\ CanWrite
    /\ IF write_or_status(rw_poisoned).code # "Ok"
       THEN /\ Finish(t, write_or_status(rw_poisoned))
            /\ UNCHANGED loaded_daos
       ELSE IF get(loaded_daos, key[t]) = 0
       THEN /\ Finish(t, NotLoadedStatus(key[t]))
            /\ UNCHANGED loaded_daos
       ELSE /\ loaded_daos' = remove(loaded_daos, key[t])
            /\ Finish(t, OkResponse)
    /\ UNCHANGED <<rw_readers, rw_poisoned, writer_pref, kind, key, calls, requests>>

ServerInit ==
    /\ loaded_daos = <<>>
    /\ rw_readers = {}
    /\ rw_poisoned = FALSE
    /\ writer_pref \in BOOLEAN
    /\ pc = [t \in Threads |-> "idle"]
    /\ kind = [t \in Threads |-> "free"]
    /\ key = [t \in Threads |-> NoKey]
    /\ status = [t \in Threads |-> NoStatus]
    /\ calls = [t \in Threads |-> 0]
    /\ requests = 0

----------------------------------------------------------------------------
(* parser_single::parse *)

None == "None"

\* the dataset the chat is parsed into, and the one `myself` may come from
DsUuid == "ds-1"
OtherDsUuid == "ds-0"

User(ds, id, first, last, username, phone) ==
    [ds_uuid |-> ds, id |-> id, first_name_option |-> first, last_name_option |-> last,
     username_option |-> username, phone_number_option |-> phone]

\* the users a chat file can mention
ChatUsers ==
    { User(DsUuid, 1, "Alice", None, "alice", None),
      User(DsUuid, 2, None, "Smith", None, "+100"),
      User(DsUuid, 3, "Carol", "Jones", "carol", "+300") }

\* the `myself` a caller can pass in: the default user, or one already filled
Myselves ==
    { User(DsUuid, 0, None, None, None, None),
      User(OtherDsUuid, 9, "Me", "Myself", "me", "+900") }

\* sequences of distinct users, at most MaxUsers long
UserSeqs ==
    {q \in UNION {[1..n -> ChatUsers] : n \in 0..MaxUsers} :
        \A i, j \in 1..Len(q) : i # j => q[i] # q[j]}

\* a myself chooser: NoChooser, or the remote one with the index (or -1, a failure)
\* its remote side answers
Choosers ==
    {[impl |-> "NoChooser", answer |-> -1]}
        \cup {[impl |-> "Remote", answer |-> a] : a \in -1..MaxUsers}

\* (mutant) NoChooser picks the only candidate when there is just one
choose_myself_single(ch, candidates) ==
    IF ch.impl = "NoChooser"
    THEN (IF Len(candidates) = 1 THEN 0 ELSE -1)
    ELSE ch.answer

\* MyselfChooser::choose_myself: -1 is Err, anything else Ok(index)
choose_myself(ch, candidates) ==
    IF ch.impl = "NoChooser" THEN -1 ELSE ch.answer

\* the error a failing chooser returns
chooser_error(ch) ==
    IF ch.impl = "NoChooser" THEN "No way to choose myself!" ELSE "remote chooser failed"

\* what parse_chat fails with
ParseChatError == "chat cannot be parsed"

\* parse has not returned
NoResult == [tag |-> "none", msg |-> "", users |-> <<>>, chats |-> <<>>]

\* (mutant) an error that hands out what was collected so far
ParseErr_Partial(msg) == [tag |-> "err", msg |-> msg, users |-> users, chats |-> cwms]

\* the `?` of lines 11 and 19: Err(e), and nothing else, is returned
ParseErr(msg) == [tag |-> "err", msg |-> msg, users |-> <<>>, chats |-> <<>>]

\* line 27: Ok((users, chats_with_messages))
ParseOk(us, cs) == [tag |-> "ok", msg |-> "", users |-> us, chats |-> cs]

\* parse, lines 8-11: the locals are created and parse_chat runs
ParseChat ==
    /\ ppc = "start"
    /\ cwms' = <<>>
    /\ IF chat_ok
       THEN /\ users' = chat_users
            /\ ppc' = "parsed"
            /\ presult' = presult
       ELSE /\ users' = <<>>
            /\ ppc' = "returned"
            /\ presult' = ParseErr(ParseChatError)
    /\ UNCHANGED <<chat_ok, chat_some, chat_users, chooser, myself, myself0,
                   chooser_calls, chooser_arg, myself_idx>>

\* parse, lines 12-15: the chat gets the dataset's uuid and the cwm is pushed
PushChat ==
    /\ ppc = "parsed"
    /\ cwms' = Append(cwms, [chat |-> IF chat_some THEN [ds_uuid |-> DsUuid] ELSE None])
    /\ ppc' = "pushed"
    /\ UNCHANGED <<chat_ok, chat_some, chat_users, chooser, users, myself, myself0,
                   chooser_calls, chooser_arg, myself_idx, presult>>

\* parse, lines 18-19: the users are handed to the myself chooser
ChooseMyself ==
    /\ ppc = "pushed"
    /\ chooser_calls' = chooser_calls + 1
    /\ chooser_arg' = users
    /\ myself_idx' = choose_myself(chooser, users)
    /\ IF choose_myself(chooser, users) = -1
       THEN /\ ppc' = "returned"
            /\ presult' = ParseErr(chooser_error(chooser))
       ELSE /\ ppc' = "chosen"
            /\ presult' = presult
    /\ UNCHANGED <<chat_ok, chat_some, chat_users, chooser, users, cwms, myself, myself0>>

\* (mutant) only the fields the candidate has are copied
copy_identity_present(me, myself2) ==
    [me EXCEPT
        !.id = myself2.id,
        !.first_name_option = IF myself2.first_name_option = None THEN @
                              ELSE myself2.first_name_option,
        !.last_name_option = IF myself2.last_name_option = None THEN @
                             ELSE myself2.last_name_option,
        !.username_option = IF myself2.username_option = None THEN @
                            ELSE myself2.username_option,
        !.phone_number_option = IF myself2.phone_number_option = None THEN @
                                ELSE myself2.phone_number_option]

\* parse, lines 21-25: the id and the four identity fields are assigned
copy_identity(me, myself2) ==
    [me EXCEPT
        !.id = myself2.id,
        !.first_name_option = myself2.first_name_option,
        !.last_name_option = myself2.last_name_option,
        !.username_option = myself2.username_option,
        !.phone_number_option = myself2.phone_number_option]

\* parse, lines 20-27: the chosen user is copied into myself; users_vec[myself_idx]
\* panics when the index is out of bounds
CopyMyself ==
    /\ IF myself_idx >= Len(users)
       THEN /\ ppc' = "panicked"
            /\ UNCHANGED <<myself, presult>>
       ELSE /\ LET myself2 == users[myself_idx + 1] IN
               myself' = copy_identity(myself, myself2)
            /\ ppc' = "returned"
            /\ presult' = ParseOk(users, cwms)
    /\ UNCHANGED <<chat_ok, chat_some, chat_users, chooser, users, cwms, myself0,
                   chooser_arg, myself_idx>>

\* (mutant) the index is taken from a second call of the chooser
ApplyMyself_Rechoose ==
    /\ ppc = "chosen"
    /\ chooser_calls' = chooser_calls + 1
    /\ CopyMyself

ApplyMyself ==
    /\ ppc = "chosen"
    /\ chooser_calls' = chooser_calls
    /\ CopyMyself

\* no parse is running (the server's specification)
ParseIdle ==
    /\ ppc = "off"
    /\ chat_ok = FALSE
    /\ chat_some = FALSE
    /\ chat_users = <<>>
    /\ chooser = [impl |-> "NoChooser", answer |-> -1]
    /\ users = <<>>
    /\ cwms = <<>>
    /\ myself = User(DsUuid, 0, None, None, None, None)
    /\ myself0 = myself
    /\ chooser_calls = 0
    /\ chooser_arg = <<>>
    /\ myself_idx = -1
    /\ presult = NoResult

\* parse is called: its arguments are drawn
ParseInit ==
    /\ ppc = "start"
    /\ chat_ok \in BOOLEAN
    /\ chat_some \in BOOLEAN
    /\ chat_users \in UserSeqs
    /\ chooser \in Choosers
    /\ users = <<>>
    /\ cwms = <<>>
    /\ myself \in Myselves
    /\ myself0 = myself
    /\ chooser_calls = 0
    /\ chooser_arg = <<>>
    /\ myself_idx = -1
    /\ presult = NoResult

\* no request is running (the parser's specification)
ServerIdle == ServerInit /\ writer_pref = FALSE

----------------------------------------------------------------------------
(* entity_utils.rs: one helper is called once, on arguments drawn at the call *)

\* a call returned v
Returned(v) == [tag |-> "ok", value |-> v]

\* a call returned Err(msg)
Failed(msg) == [tag |-> "err", value |-> msg]

\* a call panicked (assert!, slice out of range, unreachable!)
Panicked(msg) == [tag |-> "panic", value |-> msg]

UNNAMED == "[unnamed]"
UNKNOWN == "[unknown]"

\* the users pretty_name is called on: every presence combination of the four
\* optional fields, and names that read like the placeholder
NamedUsers ==
    {User(DsUuid, 1, first, last, username, phone) :
        first \in {None, "Ann", UNNAMED}, last \in {None, "Lee"},
        username \in {None, "ann", UNNAMED}, phone \in {None, "+100"}}

\* (mutant) the username is looked at before the phone number
pretty_name_option_username_first(u) ==
    LET first_name == u.first_name_option
        last_name == u.last_name_option
        phone_number == u.phone_number_option
        username == u.username_option
    IN CASE first_name # None /\ last_name # None -> first_name \o " " \o last_name
         [] first_name # None /\ last_name = None -> first_name
         [] first_name = None /\ last_name # None -> last_name
         [] first_name = None /\ last_name = None /\ username # None -> username
         [] first_name = None /\ last_name = None /\ username = None /\ phone_number # None ->
                phone_number
         [] OTHER -> None

\* User::pretty_name_option: the match on (first, last, phone, username), arm by arm
pretty_name_option(u) ==
    LET first_name == u.first_name_option
        last_name == u.last_name_option
        phone_number == u.phone_number_option
        username == u.username_option
    IN CASE first_name # None /\ last_name # None -> first_name \o " " \o last_name
         [] first_name # None /\ last_name = None -> first_name
         [] first_name = None /\ last_name # None -> last_name
         [] first_name = None /\ last_name = None /\ phone_number # None -> phone_number
         [] first_name = None /\ last_name = None /\ phone_number = None /\ username # None ->
                username
         [] first_name = None /\ last_name = None /\ phone_number = None /\ username = None ->
                None

\* (mutant) the placeholder of another helper is used
pretty_name_unknown(u) ==
    IF pretty_name_option(u) = None THEN UNKNOWN ELSE pretty_name_option(u)

\* User::pretty_name: unwrap_or(UNNAMED)
pretty_name(u) ==
    IF pretty_name_option(u) = None THEN UNNAMED ELSE pretty_name_option(u)

\* u.pretty_name() is called
PrettyName ==
    /\ ucall = "none"
    /\ \E u \in NamedUsers :
          /\ ucall' = "pretty_name"
          /\ uargs' = [self |-> u]
          /\ uret' = Returned(pretty_name(u))

\* the i-th character of a string
Char(s, i) == SubSeq(s, i, i)

\* str::starts_with
starts_with(s, prefix) ==
    Len(prefix) <= Len(s) /\ SubSeq(s, 1, Len(prefix)) = prefix

\* Path::is_absolute (Unix)
is_absolute(path) == starts_with(path, "/")

\* PathBuf::join of a relative path
join(base, path) ==
    IF base # "" /\ Char(base, Len(base)) = "/" THEN base \o path
    ELSE base \o "/" \o path

\* (mutant) no assert: PathBuf::join lets an absolute path replace the root
to_absolute_unchecked(self, path_str) ==
    IF is_absolute(path_str) THEN Returned(path_str)
    ELSE Returned(join(self, path_str))

\* DatasetRoot::to_absolute (lines 33-37)
to_absolute(self, path_str) ==
    IF is_absolute(path_str)
    THEN Panicked("Path " \o path_str \o " needs to be relative!")
    ELSE Returned(join(self, path_str))

\* the components of a path, as Path::components sees them
RECURSIVE SplitFrom(_, _, _)
SplitFrom(s, i, current) ==
    IF i > Len(s) THEN <<current>>
    ELSE IF Char(s, i) = "/" THEN <<current>> \o SplitFrom(s, i + 1, "")
    ELSE SplitFrom(s, i + 1, current \o Char(s, i))

\* "." and empty components dropped, ".." resolved against what precedes it
RECURSIVE Resolve(_, _)
Resolve(components, resolved) ==
    IF components = <<>> THEN resolved
    ELSE LET c == Head(components) IN
         IF c = "" \/ c = "." THEN Resolve(Tail(components), resolved)
         ELSE IF c = ".."
              THEN Resolve(Tail(components),
                           IF resolved = <<>> THEN <<>>
                           ELSE SubSeq(resolved, 1, Len(resolved) - 1))
              ELSE Resolve(Tail(components), Append(resolved, c))

RECURSIVE Render(_)
Render(components) ==
    IF components = <<>> THEN ""
    ELSE "/" \o Head(components) \o Render(Tail(components))

\* the files and directories that exist (no symbolic links)
Existing ==
    {"/", "/a", "/a/ds", "/a/ds/f", "/a/ds/sub", "/a/ds/sub/g",
     "/a/ds2", "/a/ds2/f", "/b", "/b/f"}

\* Path::canonicalize: the absolute path with "." and ".." resolved, an error if
\* nothing exists there
canonicalize(path) ==
    LET resolved == Resolve(SplitFrom(path, 1, ""), <<>>)
        canonical == IF resolved = <<>> THEN "/" ELSE Render(resolved)
    IN IF canonical \in Existing THEN Returned(canonical)
       ELSE Failed("No such file or directory")

\* DatasetRoot::to_relative (lines 39-49); path[(ds_root.len() + 1)..] panics when
\* the slice starts beyond the end of the string
to_relative(self, path) ==
    IF ~is_absolute(self) THEN Panicked("Path " \o path \o " needs to be absolute!")
    ELSE LET canonical == canonicalize(path) IN
         IF canonical.tag # "ok" THEN canonical
         ELSE IF ~starts_with(canonical.value, self)
              THEN Failed("Path " \o canonical.value \o " is not under dataset root " \o self)
              ELSE IF Len(self) + 1 > Len(canonical.value)
                   THEN Panicked("byte index out of range")
                   ELSE Returned(SubSeq(canonical.value, Len(self) + 2,
                                        Len(canonical.value)))

\* the dataset roots: absolute, canonical directories
DatasetRoots == {"/a/ds", "/a/ds/sub", "/b"}

\* the paths handed to to_relative
AbsolutePaths ==
    Existing \cup {"/a/ds/./f", "/a/ds/sub/../f", "/a/ds/../ds2/f", "/a/ds/sub/",
                   "/a/ds/missing", "/b/../a/ds/sub/g"}

\* the file references handed to to_absolute
StoredPaths == {"f", "sub/g", "media/p.jpg", "./f", "", "/a/ds/f", "/etc/passwd"}

\* ds_root.to_absolute(path_str) is called
ToAbsolute ==
    /\ ucall = "none"
    /\ \E self \in DatasetRoots, path_str \in StoredPaths :
          /\ ucall' = "to_absolute"
          /\ uargs' = [self |-> self, path_str |-> path_str]
          /\ uret' = to_absolute(self, path_str)

\* ds_root.to_relative(path) is called
ToRelative ==
    /\ ucall = "none"
    /\ \E self \in DatasetRoots, path \in AbsolutePaths :
          /\ ucall' = "to_relative"
          /\ uargs' = [self |-> self, path |-> path]
          /\ uret' = to_relative(self, path)

\* stand-ins for the two characters a TLA+ string cannot hold:
\* U+00A0 no-break space (category Zs, White_Space) and U+200B zero-width space
\* (category Cf, not White_Space)
NBSP == "~"
ZWSP == "^"

\* the class [\p{Z}\p{Cf}\n] of NORMALIZE_REGEX, over the characters of the model
SeparatorOrFormat == {" ", NBSP, ZWSP, "\n"}

\* char::is_whitespace, which str::trim goes by
WhiteSpace == {" ", NBSP, "\n", "\t"}

\* Regex::replace_all(s, " "): every maximal run of the class becomes one space
RECURSIVE replace_all(_, _, _)
replace_all(s, i, in_run) ==
    IF i > Len(s) THEN ""
    ELSE IF Char(s, i) \in SeparatorOrFormat
         THEN (IF in_run THEN "" ELSE " ") \o replace_all(s, i + 1, TRUE)
         ELSE Char(s, i) \o replace_all(s, i + 1, FALSE)

RECURSIVE trim_start(_)
trim_start(s) ==
    IF s # "" /\ Char(s, 1) \in WhiteSpace THEN trim_start(SubSeq(s, 2, Len(s))) ELSE s

RECURSIVE trim_end(_)
trim_end(s) ==
    IF s # "" /\ Char(s, Len(s)) \in WhiteSpace THEN trim_end(SubSeq(s, 1, Len(s) - 1))
    ELSE s

\* str::trim
trim(s) == trim_end(trim_start(s))

\* normalize_seachable_string (lines 510-518)
normalize_seachable_string(s) == trim(replace_all(s, 1, FALSE))

\* Itertools::join / slice::join of strings
RECURSIVE join_str(_, _)
join_str(strings, sep) ==
    IF strings = <<>> THEN ""
    ELSE IF Len(strings) = 1 THEN strings[1]
    ELSE strings[1] \o sep \o join_str(Tail(strings), sep)

\* Iterator::filter(|s| !s.is_empty())
NonEmpty(strings) == SelectSeq(strings, LAMBDA x : x # "")

\* Iterator::flatten over Options: the present ones, in order
Flatten(options) == SelectSeq(options, LAMBDA x : x # None)

\* RichText::make_plain, make_bold, ... make_prefmt_block (lines 343-390, 412-424):
\* the same but for the variant
make_styled(variant, text) ==
    [searchable_string |-> normalize_seachable_string(text),
     val |-> [variant |-> variant, text |-> text, href |-> ""]]

\* RichText::make_link (lines 392-410)
make_link(text_option, href) ==
    LET text == IF text_option = None THEN "" ELSE text_option
        searchable_string == IF text = href THEN href ELSE trim(text \o " " \o href)
    IN [searchable_string |-> normalize_seachable_string(searchable_string),
        val |-> [variant |-> "Link", text |-> text_option, href |-> href]]

\* the values of a required string field, given those of an optional one
Required(T) == IF T = {None} THEN {""} ELSE T \ {None}

\* the member lists of a service message, from the names T
MemberLists(T) ==
    {<<>>} \cup {<<m>> : m \in Required(T)} \cup {<<"Ann", m>> : m \in Required(T)}

\* Content: the variants of content::SealedValueOptional, with the paths drawn from
\* P and the texts from T; "None" is content_option = None, "Empty" a Content
\* without a sealed value
Contents(P, T) ==
    {[variant |-> "None"], [variant |-> "Empty"]}
    \cup {[variant |-> "Sticker", path_option |-> p, thumbnail_path_option |-> t,
           emoji_option |-> e] : p \in P, t \in P, e \in T}
    \cup {[variant |-> v, path_option |-> p] : v \in {"Photo", "VoiceMsg"}, p \in P}
    \cup {[variant |-> "Audio", path_option |-> p, title_option |-> a,
           performer_option |-> b] : p \in P, a \in T, b \in T}
    \cup {[variant |-> "VideoMsg", path_option |-> p, thumbnail_path_option |-> t] :
             p \in P, t \in P}
    \cup {[variant |-> "Video", path_option |-> p, thumbnail_path_option |-> t,
           title_option |-> a, performer_option |-> b] :
             p \in P, t \in P, a \in T, b \in T}
    \cup {[variant |-> "File", path_option |-> p, thumbnail_path_option |-> t,
           file_name_option |-> a] : p \in P, t \in P, a \in T}
    \cup {[variant |-> "Location", address_option |-> a, title_option |-> b,
           lat_str |-> c[1], lon_str |-> c[2]] :
             a \in T, b \in T, c \in {<<"", "">>, <<"-8.70", "115.21">>}}
    \cup {[variant |-> "Poll", question |-> a] : a \in Required(T)}
    \cup {[variant |-> "SharedContact", first_name_option |-> a, last_name_option |-> b,
           phone_number_option |-> c, vcard_path_option |-> p] :
             a \in T, b \in T, c \in T \cap {None, "Song"}, p \in P}

\* MessageService: the variants of message_service::SealedValueOptional; "None" is
\* a MessageService without a sealed value
Services(P, T) ==
    {[variant |-> v] : v \in {"None", "PhoneCall", "PinMessage", "ClearHistory",
                              "BlockUser", "StatusTextChanged", "Notice",
                              "GroupDeletePhoto", "GroupMigrateTo"}}
    \cup {[variant |-> v, photo |-> [present |-> b, path_option |-> p]] :
             v \in {"SuggestProfilePhoto", "GroupEditPhoto"},
             b \in BOOLEAN, p \in P}
    \cup {[variant |-> "GroupCreate", title |-> a, members |-> m] :
             a \in Required(T), m \in MemberLists(T)}
    \cup {[variant |-> v, title |-> a] :
             v \in {"GroupEditTitle", "GroupMigrateFrom"}, a \in Required(T)}
    \cup {[variant |-> v, members |-> m] :
             v \in {"GroupInviteMembers", "GroupRemoveMembers", "GroupCall"},
             m \in MemberLists(T)}

\* message::Typed: Regular with its content, or Service
Typeds(P, T) ==
    {[typed |-> "Regular", content |-> c] : c \in Contents(P, T)}
    \cup {[typed |-> "Service", content |-> m] : m \in Services(P, T)}

\* make_searchable_string, lines 528-568: the texts the payload contributes
typed_component_text(typed) ==
    LET c == typed.content IN
    IF typed.typed = "Regular"
    THEN CASE c.variant = "Sticker" -> Flatten(<<c.emoji_option>>)
           [] c.variant \in {"Audio", "Video"} ->
                  Flatten(<<c.title_option, c.performer_option>>)
           [] c.variant = "File" -> Flatten(<<c.file_name_option>>)
           [] c.variant = "Location" ->
                  Flatten(<<c.address_option, c.title_option>>) \o <<c.lat_str, c.lon_str>>
           [] c.variant = "Poll" -> <<c.question>>
           [] c.variant = "SharedContact" ->
                  Flatten(<<c.first_name_option, c.last_name_option, c.phone_number_option>>)
           [] OTHER -> <<>>
    ELSE CASE c.variant = "GroupCreate" -> <<c.title>> \o c.members
           [] c.variant \in {"GroupInviteMembers", "GroupRemoveMembers", "GroupCall"} ->
                  c.members
           [] c.variant = "GroupMigrateFrom" -> <<c.title>>
           [] OTHER -> <<>>

\* the searchable strings of the RichText elements, in order
SearchableStrings(components) ==
    [i \in 1..Len(components) |-> components[i].searchable_string]

\* (mutant) the payload's texts come before the text of the message
make_searchable_string_typed_first(components, typed) ==
    LET joined_text == join_str(NonEmpty(SearchableStrings(components)), " ")
        typed_text == join_str(typed_component_text(typed), " ")
    IN trim(join_str(NonEmpty(<<trim(typed_text), trim(joined_text)>>), " "))

\* make_searchable_string (lines 520-576), for a typed it does not panic on
make_searchable_string(components, typed) ==
    LET joined_text == join_str(NonEmpty(SearchableStrings(components)), " ")
        typed_text == join_str(typed_component_text(typed), " ")
    IN trim(join_str(NonEmpty(<<trim(joined_text), trim(typed_text)>>), " "))

\* line 567: a Service without a sealed value is unreachable!()
Unreachable(typed) == typed.typed = "Service" /\ typed.content.variant = "None"

\* Message::new (lines 248-264); the ids, the timestamp and the sender are stored as
\* given and left out here
MessageNew(text, typed) ==
    IF Unreachable(typed) THEN Panicked("internal error: entered unreachable code")
    ELSE Returned([text |-> text,
                   searchable_string |-> make_searchable_string(text, typed),
                   typed |-> typed])

\* RichText elements of one message
MaxText == 2

\* the raw texts of RichText elements
RawTexts == {"", "Hi", "Sending you a text!", " a" \o NBSP \o ZWSP \o " \n b\n"}

\* the RichText elements a loader makes
RichTexts ==
    {make_styled("Plain", t) : t \in RawTexts}
    \cup {make_styled("Bold", " b ")}
    \cup {make_link(None, "http://x"), make_link("http://x", "http://x"),
          make_link("see\nhere", "http://x")}

Texts == UNION {[1..n -> RichTexts] : n \in 0..MaxText}

\* the texts of payload fields, as the source data gives them
PayloadTexts == {None, "", "Song", " la\nla  la"}

\* Message::new(.., text, typed) is called
NewMessage ==
    /\ ucall = "none"
    /\ \E text \in Texts, typed \in Typeds({None}, PayloadTexts) :
          /\ ucall' = "Message::new"
          /\ uargs' = [text |-> text, typed |-> typed]
          /\ uret' = MessageNew(text, typed)

\* Message::files_relative (lines 280-322): the stored paths of the payload, the
\* absent ones dropped
files_relative(self) ==
    LET c == self.typed.content IN
    IF self.typed.typed = "Regular"
    THEN CASE c.variant \in {"Sticker", "VideoMsg", "Video", "File"} ->
                  Flatten(<<c.path_option, c.thumbnail_path_option>>)
           [] c.variant \in {"Photo", "VoiceMsg", "Audio"} -> Flatten(<<c.path_option>>)
           [] c.variant = "SharedContact" -> Flatten(<<c.vcard_path_option>>)
           [] OTHER -> <<>>
    ELSE CASE c.variant \in {"SuggestProfilePhoto", "GroupEditPhoto"} ->
                  Flatten(<<IF c.photo.present THEN c.photo.path_option ELSE None>>)
           [] OTHER -> <<>>

\* the first panic among the results, or all their values
Collect(results) ==
    IF \E i \in 1..Len(results) : results[i].tag = "panic"
    THEN results[CHOOSE i \in 1..Len(results) :
                     /\ results[i].tag = "panic"
                     /\ \A j \in 1..(i - 1) : results[j].tag # "panic"]
    ELSE Returned([i \in 1..Len(results) |-> results[i].value])

\* Message::files (lines 324-327); line 317: a Service without a sealed value is
\* unreachable!()
files(self, root) ==
    IF Unreachable(self.typed) THEN Panicked("internal error: entered unreachable code")
    ELSE LET relative == files_relative(self) IN
         Collect([i \in 1..Len(relative) |-> to_absolute(root, relative[i])])

\* Option::map(|p| ds_root.to_absolute(p))
map_to_absolute(path_option, root) ==
    IF path_option = None THEN Returned(None) ELSE to_absolute(root, path_option)

\* Chat::get_img_path_option (lines 231-233)
get_img_path_option(self, root) == map_to_absolute(self.img_path_option, root)

\* Content::path_file_option (lines 428-440)
path_file_option(self, root) ==
    IF self.variant \in {"Sticker", "Photo", "VoiceMsg", "Audio", "VideoMsg", "Video",
                         "File"}
    THEN map_to_absolute(self.path_option, root)
    ELSE Returned(None)

\* the file references entities store: absent, relative, or (against the
\* convention) absolute
PathOptions == {None, "media/p.jpg", "media/t.jpg", "/abs/p.jpg"}

\* message.files(ds_root) is called
Files ==
    /\ ucall = "none"
    /\ \E typed \in Typeds(PathOptions, {None}), root \in DatasetRoots :
          LET self == [text |-> <<>>, searchable_string |-> "", typed |-> typed] IN
          /\ ucall' = "files"
          /\ uargs' = [self |-> self, ds_root |-> root]
          /\ uret' = files(self, root)

\* chat.get_img_path_option(ds_root) is called
GetImgPathOption ==
    /\ ucall = "none"
    /\ \E img \in PathOptions, root \in DatasetRoots :
          /\ ucall' = "get_img_path_option"
          /\ uargs' = [self |-> [img_path_option |-> img], ds_root |-> root]
          /\ uret' = get_img_path_option([img_path_option |-> img], root)

\* content.path_file_option(ds_root) is called
PathFileOption ==
    /\ ucall = "none"
    /\ \E content \in Contents(PathOptions, {None}) \ {[variant |-> "None"]},
          root \in DatasetRoots :
          /\ ucall' = "path_file_option"
          /\ uargs' = [self |-> content, ds_root |-> root]
          /\ uret' = path_file_option(content, root)

\* no helper was called
EntityIdle ==
    /\ ucall = "none"
    /\ uargs = <<>>
    /\ uret = <<>>

NextEntity ==
    \/ PrettyName /\ UNCHANGED <<server_vars, parse_vars>>
    \/ ToAbsolute /\ UNCHANGED <<server_vars, parse_vars>>
    \/ ToRelative /\ UNCHANGED <<server_vars, parse_vars>>
    \/ NewMessage /\ UNCHANGED <<server_vars, parse_vars>>
    \/ Files /\ UNCHANGED <<server_vars, parse_vars>>
    \/ GetImgPathOption /\ UNCHANGED <<server_vars, parse_vars>>
    \/ PathFileOption /\ UNCHANGED <<server_vars, parse_vars>>

InitEntity == ServerIdle /\ ParseIdle /\ EntityIdle

SpecEntity == InitEntity /\ [][NextEntity]_vars

Init == ServerInit /\ ParseIdle /\ EntityIdle

Next ==
    \E t \in Threads :
        \/ Begin(t) /\ UNCHANGED <<parse_vars, entity_vars>>
        \/ ReadOrStatus(t) /\ UNCHANGED <<parse_vars, entity_vars>>
        \/ Get(t) /\ UNCHANGED <<parse_vars, entity_vars>>
        \/ LockOrStatus(t) /\ UNCHANGED <<parse_vars, entity_vars>>
        \/ LogicOk(t) /\ UNCHANGED <<parse_vars, entity_vars>>
        \/ LogicErr(t) /\ UNCHANGED <<parse_vars, entity_vars>>
        \/ LogicPanic(t) /\ UNCHANGED <<parse_vars, entity_vars>>
        \/ LogicStall(t) /\ UNCHANGED <<parse_vars, entity_vars>>
        \/ ResolveOrLoad(t) /\ UNCHANGED <<parse_vars, entity_vars>>
        \/ Unload(t) /\ UNCHANGED <<parse_vars, entity_vars>>

Spec == Init /\ [][Next]_vars

\* the requests when every logic returns: none panics, none stalls
NextFair ==
    \E t \in Threads :
        \/ Begin(t) /\ UNCHANGED <<parse_vars, entity_vars>>
        \/ ReadOrStatus(t) /\ UNCHANGED <<parse_vars, entity_vars>>
        \/ Get(t) /\ UNCHANGED <<parse_vars, entity_vars>>
        \/ LockOrStatus(t) /\ UNCHANGED <<parse_vars, entity_vars>>
        \/ LogicOk(t) /\ UNCHANGED <<parse_vars, entity_vars>>
        \/ LogicErr(t) /\ UNCHANGED <<parse_vars, entity_vars>>
        \/ ResolveOrLoad(t) /\ UNCHANGED <<parse_vars, entity_vars>>
        \/ Unload(t) /\ UNCHANGED <<parse_vars, entity_vars>>

\* a step of the request thread t
Step(t) ==
    /\ \/ ReadOrStatus(t) \/ Get(t) \/ LockOrStatus(t) \/ LogicOk(t) \/ LogicErr(t)
       \/ ResolveOrLoad(t) \/ Unload(t)
    /\ UNCHANGED <<parse_vars, entity_vars>>

\* the scheduler runs every thread that can go on; requests need not arrive
Fairness == \A t \in Threads : WF_vars(Step(t))

SpecFair == Init /\ [][NextFair]_vars /\ Fairness

NextParse ==
    \/ ParseChat /\ UNCHANGED <<server_vars, entity_vars>>
    \/ PushChat /\ UNCHANGED <<server_vars, entity_vars>>
    \/ ChooseMyself /\ UNCHANGED <<server_vars, entity_vars>>
    \/ ApplyMyself /\ UNCHANGED <<server_vars, entity_vars>>

InitParse == ServerIdle /\ ParseInit /\ EntityIdle

SpecParse == InitParse /\ [][NextParse]_vars

----------------------------------------------------------------------------
(* Properties of the request processor and the registry *)

Entry(k) == loaded_daos[get(loaded_daos, k)]

\* a dataset-scoped request whose logic is running (or stalled in it) on key k
Executing(t, k) == kind[t] = "dao" /\ key[t] = k /\ pc[t] \in {"logic", "stalled"}

\* C1: a dataset-scoped request whose key is not, verbatim, a key of the map ends
\* with FailedPrecondition "not loaded" (never Internal), without its logic having
\* been invoked and without any dataset lock taken.
C1_NotLoadedIsPrecondition ==
    [][\A t \in Threads :
          (pc[t] = "get" /\ pc'[t] # "get" /\ key[t] \notin KeysOf(loaded_daos)) =>
              /\ pc'[t] = "done"
              /\ status'[t].code = "FailedPrecondition"
              /\ status'[t].message = "Database with key " \o key[t] \o " is not loaded!"
              /\ calls'[t] = 0
              /\ loaded_daos' = loaded_daos]_vars

\* C1 witness: "/a/ds" is loaded, and a request for "/a/./ds" was refused as not loaded
C1_Witness ==
    \E t \in Threads :
        /\ pc[t] = "done" /\ kind[t] = "dao" /\ key[t] = "/a/./ds"
        /\ status[t].code = "FailedPrecondition" /\ calls[t] = 0
        /\ "/a/ds" \in KeysOf(loaded_daos)
        /\ "/a/./ds" \notin KeysOf(loaded_daos)

\* C2: for each key at most one request is executing its logic against that dataset,
\* and the one that is holds the dataset's mutex; any other waits at the lock.
C2_MutualExclusion ==
    \A k \in Keys :
        /\ Cardinality({t \in Threads : Executing(t, k)}) <= 1
        /\ \A t \in Threads :
              Executing(t, k) => k \in KeysOf(loaded_daos) /\ Entry(k).locked_by = t

\* C2 witness: one request runs its logic on a key while a second one waits for the lock
C2_Witness ==
    \E t, u \in Threads :
        /\ t # u /\ key[t] = key[u]
        /\ Executing(t, key[t])
        /\ kind[u] = "dao" /\ pc[u] = "lock"

\* C3 (as claimed): while a request on A executes, a request on another loaded key B
\* can acquire what it needs: the read guard of the map and B's free mutex.
C3_OtherDatasetNeverBlocked ==
    \A t, u \in Threads :
        (/\ kind[t] = "dao" /\ kind[u] = "dao" /\ key[t] # key[u]
         /\ {key[t], key[u]} \subseteq KeysOf(loaded_daos)
         /\ Executing(u, key[u])) =>
            /\ pc[t] = "read" => CanRead
            /\ (pc[t] = "lock" /\ ~\E v \in Threads : Executing(v, key[t])) =>
                   MutexFree(Entry(key[t]))

\* C4: resolve_or_load runs the Loader exactly when the key is not loaded, so callers
\* of one unloaded key run it once; afterwards the map holds exactly one entry for
\* the key, and a caller that found the key loaded gets the entry that was there.
C4_SingleLoad ==
    [][\A t \in Threads :
          (kind[t] = "load" /\ pc[t] = "write" /\ pc'[t] = "done") =>
              /\ calls'[t] = (IF key[t] \in KeysOf(loaded_daos) THEN 0 ELSE 1)
              /\ status'[t].code = "Ok" =>
                    /\ Cardinality({i \in 1..Len(loaded_daos') :
                                       loaded_daos'[i].key = key[t]}) = 1
                    /\ key[t] \in KeysOf(loaded_daos) => loaded_daos' = loaded_daos]_vars

\* C4 witness: two callers loaded the same key; the Loader ran for one of them only
C4_Witness ==
    \E t, u \in Threads :
        /\ t # u /\ kind[t] = "load" /\ kind[u] = "load" /\ key[t] = key[u]
        /\ pc[t] = "done" /\ pc[u] = "done"
        /\ status[t].code = "Ok" /\ status[u].code = "Ok"
        /\ calls[t] = 1 /\ calls[u] = 0
        /\ key[t] \in KeysOf(loaded_daos)

\* C5: an unload of a loaded key removes it, an unload of an absent key fails with
\* NotLoaded and leaves the map as it is; a key comes (back) into the map only by a
\* load of that key; and as long as it is absent, every dataset-scoped request on
\* it fails with NotLoaded.
C5_UnloadThenNotLoaded ==
    [][LET before == KeysOf(loaded_daos)
           after == KeysOf(loaded_daos')
       IN
       /\ \A t \in Threads :
             /\ (kind[t] = "unload" /\ pc[t] = "write" /\ pc'[t] = "done") =>
                    IF key[t] \in before
                    THEN status'[t].code = "Ok" /\ key[t] \notin after
                    ELSE status'[t].code = "FailedPrecondition" /\ loaded_daos' = loaded_daos
             /\ (/\ kind[t] = "dao" /\ pc[t] \in {"get", "lock", "logic"} /\ pc'[t] # pc[t]
                 /\ key[t] \notin before) =>
                    pc'[t] = "done" /\ status'[t].code = "FailedPrecondition" /\ calls'[t] = 0
       /\ \A k \in after \ before :
             \E t \in Threads :
                 kind[t] = "load" /\ key[t] = k /\ pc[t] = "write" /\ pc'[t] = "done"]_vars

\* C5 witness: a key was unloaded, is absent, and a request on it got NotLoaded
C5_Witness ==
    \E t, u \in Threads :
        /\ kind[u] = "unload" /\ pc[u] = "done" /\ status[u].code = "Ok"
        /\ kind[t] = "dao" /\ pc[t] = "done" /\ key[t] = key[u]
        /\ status[t].code = "FailedPrecondition"
        /\ key[t] \notin KeysOf(loaded_daos)

\* the requests that cannot go on before the stalled request u lets go of its guards
StuckBehind(u) ==
    {t \in Threads \ {u} :
        \/ pc[t] = "write" /\ u \in rw_readers
        \/ pc[t] = "read" /\ writer_pref /\ u \in rw_readers /\ WaitingWriters # {}
        \/ /\ pc[t] = "lock" /\ key[t] \in KeysOf(loaded_daos)
           /\ Entry(key[t]).locked_by = u}

\* C6 (as claimed): a request stalled in the myself chooser holds back only requests
\* on its own dataset: no request on another key, and no insert or remove of
\* another key, waits for a guard the stalled request holds.
C6_StallIsLocal ==
    \A u \in Threads :
        (kind[u] = "dao" /\ pc[u] = "stalled") =>
            \A t \in StuckBehind(u) : key[t] = key[u]

\* C7: a request of process_request / process_request_with_dao ends with Ok,
\* FailedPrecondition or Internal and nothing else: FailedPrecondition exactly for
\* a key that is not loaded, Internal for a poisoned lock and for an error of the logic.
C7_BoundaryVocabulary ==
    [][\A t \in Threads :
          (kind[t] \in {"dao", "free"} /\ pc[t] # "done" /\ pc'[t] = "done") =>
              /\ status'[t].code \in {"Ok", "FailedPrecondition", "Internal"}
              /\ pc[t] = "read" => status'[t].code = "Internal" /\ rw_poisoned
              /\ pc[t] = "get" =>
                    /\ status'[t].code = "FailedPrecondition"
                    /\ key[t] \notin KeysOf(loaded_daos)
              /\ pc[t] = "lock" => status'[t].code = "Internal" /\ Entry(key[t]).poisoned
              /\ pc[t] = "logic" =>
                    /\ status'[t].code \in {"Ok", "Internal"}
                    /\ status'[t].code = "Internal" => status'[t].message \in {e.msg : e \in Errors}]_vars

\* C7 witness: three requests ended, one per failure: a poisoned mutex, a key that
\* is not loaded, an error of the logic
C7_Witness ==
    \E t, u, v \in Threads :
        /\ pc[t] = "done" /\ pc[u] = "done" /\ pc[v] = "done"
        /\ kind[t] = "dao" /\ status[t] = [code |-> "Internal", message |-> "Mutex is poisoned!"]
        /\ kind[u] = "dao" /\ status[u].code = "FailedPrecondition"
        /\ kind[v] \in {"dao", "free"} /\ calls[v] = 1 /\ status[v].code = "Internal"

\* C8 (as claimed): two runs of the same request that differ only in the error their
\* logic returned give the caller the same status message.
C8_ErrorDetailHidden ==
    \A t, u \in Threads :
        (/\ pc[t] = "done" /\ pc[u] = "done"
         /\ kind[t] \in {"dao", "free"} /\ kind[t] = kind[u] /\ key[t] = key[u]
         /\ calls[t] = 1 /\ calls[u] = 1
         /\ status[t].code = "Internal" /\ status[u].code = "Internal") =>
            status[t].message = status[u].message

\* C9: a poisoned dataset mutex makes every request that reaches it end with
\* Internal, its logic not invoked; the poison stays for as long as the entry stays
\* in the map; a request that reaches an unpoisoned mutex has its logic invoked.
C9_PoisonIsFailureAndStays ==
    [][/\ \A t \in Threads :
             (pc[t] = "lock" /\ pc'[t] # "lock") =>
                 IF Entry(key[t]).poisoned
                 THEN /\ pc'[t] = "done"
                      /\ status'[t].code = "Internal"
                      /\ calls'[t] = 0
                 ELSE /\ pc'[t] = "logic"
                      /\ calls'[t] = 1
       /\ \A i \in 1..Len(loaded_daos) :
             LET k == loaded_daos[i].key IN
             (loaded_daos[i].poisoned /\ k \in KeysOf(loaded_daos')) =>
                 \A j \in 1..Len(loaded_daos') :
                     loaded_daos'[j].key = k => loaded_daos'[j].poisoned]_vars

\* C9 witness: a request on a poisoned dataset ended with Internal, its logic not
\* invoked, while a request on another, unpoisoned dataset is running its logic
C9_Witness ==
    \E t, u \in Threads :
        /\ kind[t] = "dao" /\ pc[t] = "done" /\ calls[t] = 0
        /\ status[t] = [code |-> "Internal", message |-> "Mutex is poisoned!"]
        /\ key[t] \in KeysOf(loaded_daos) /\ Entry(key[t]).poisoned
        /\ kind[u] = "dao" /\ pc[u] = "logic" /\ key[u] # key[t]
        /\ ~Entry(key[u]).poisoned

----------------------------------------------------------------------------
(* Properties of parser_single::parse *)

\* parse is over: it returned, or it panicked
ParseOver == ppc \in {"returned", "panicked"}

\* C10: the myself chooser is called at most once; once parse is over it was called
\* exactly once if parse_chat succeeded and not at all if it failed; and whenever it
\* was called, it was called with the users parse_chat had collected.
C10_ChooserCalledOnce ==
    /\ chooser_calls <= 1
    /\ (ParseOver /\ chat_ok) => chooser_calls = 1
    /\ (ParseOver /\ ~chat_ok) => chooser_calls = 0
    /\ chooser_calls >= 1 => ppc \notin {"start", "parsed"} /\ chooser_arg = chat_users

\* C10 witness: parse returned after the chooser picked among two collected users
C10_Witness ==
    /\ ppc = "returned" /\ presult.tag = "ok"
    /\ chooser_calls = 1
    /\ Len(chooser_arg) = 2

\* the chooser answered with a failure
ChooserFailed == chooser_calls = 1 /\ myself_idx = -1

\* C11: parse returns an error exactly when parse_chat failed or the chooser
\* failed, and then myself is as it was before the call (id, first name, last name,
\* username, phone) and the result carries no users and no chats.
C11_NoPartialApplication ==
    /\ (ParseOver /\ (~chat_ok \/ ChooserFailed)) =>
           ppc = "returned" /\ presult.tag = "err"
    /\ presult.tag = "err" =>
           /\ ~chat_ok \/ ChooserFailed
           /\ myself = myself0
           /\ presult.users = <<>>
           /\ presult.chats = <<>>

\* C11 witness: the chat was parsed with two users and pushed, then the chooser
\* failed; the filled myself the caller passed in is untouched
C11_Witness ==
    /\ ppc = "returned" /\ presult.tag = "err"
    /\ chat_ok /\ ChooserFailed
    /\ Len(users) = 2 /\ Len(cwms) = 1
    /\ myself0.id = 9 /\ myself = myself0

\* C12: when the chooser answers with an index of the sequence it was given, parse
\* returns Ok, myself has the id, first name, last name, username and phone of the
\* candidate at that index (a field the candidate lacks is cleared), and the result
\* holds the collected users and exactly one chat, which carries the dataset's uuid.
C12_ChosenCandidateApplied ==
    (ParseOver /\ chooser_calls = 1 /\ myself_idx >= 0 /\ myself_idx < Len(chooser_arg)) =>
        LET candidate == chooser_arg[myself_idx + 1] IN
        /\ ppc = "returned" /\ presult.tag = "ok"
        /\ myself.id = candidate.id
        /\ myself.first_name_option = candidate.first_name_option
        /\ myself.last_name_option = candidate.last_name_option
        /\ myself.username_option = candidate.username_option
        /\ myself.phone_number_option = candidate.phone_number_option
        /\ presult.users = chooser_arg
        /\ Len(presult.chats) = 1
        /\ chat_some => presult.chats[1].chat.ds_uuid = DsUuid

\* C12 witness: the second of two candidates was chosen; it has no last name and no
\* phone, and the last name and phone myself had before are gone
C12_Witness ==
    /\ ppc = "returned" /\ presult.tag = "ok"
    /\ myself_idx = 1 /\ Len(chooser_arg) = 2
    /\ myself0.last_name_option = "Myself" /\ myself0.phone_number_option = "+900"
    /\ myself.id = 1 /\ myself.first_name_option = "Alice"
    /\ myself.last_name_option = None /\ myself.phone_number_option = None
    /\ chat_some

\* C13: NoChooser answers every candidate sequence, the empty one and the
\* one-candidate one included, with a failure and never with an index; a parse that
\* asks it returns the error "No way to choose myself!" and picks nobody.
C13_NoChooserAlwaysFails ==
    /\ \A q \in UserSeqs : choose_myself([impl |-> "NoChooser", answer |-> -1], q) = -1
    /\ (chooser.impl = "NoChooser" /\ chooser_calls >= 1) =>
           /\ myself_idx = -1
           /\ ppc = "returned"
           /\ presult = ParseErr("No way to choose myself!")
           /\ myself = myself0

\* C13 witness: NoChooser was asked about a single candidate and the parse failed
C13_Witness ==
    /\ chooser.impl = "NoChooser" /\ chooser_calls = 1
    /\ Len(chooser_arg) = 1
    /\ ppc = "returned" /\ presult.tag = "err"
    /\ presult.msg = "No way to choose myself!"

----------------------------------------------------------------------------
(* Properties of the entity helpers *)

\* none of the four optional name fields of u is present
AllAbsent(u) ==
    /\ u.first_name_option = None /\ u.last_name_option = None
    /\ u.phone_number_option = None /\ u.username_option = None

\* C14 (as claimed): pretty_name never fails and returns "[unnamed]" if and only if
\* first name, last name, phone number and username are all absent.
C14_PlaceholderIffAllAbsent ==
    ucall = "pretty_name" =>
        /\ uret.tag = "ok"
        /\ uret.value = UNNAMED <=> AllAbsent(uargs.self)

\* C14 (amended): pretty_name never fails; pretty_name_option is None exactly when
\* all four fields are absent, and then pretty_name is "[unnamed]"; when a field is
\* present, pretty_name is "[unnamed]" only if that is the text of one of the fields.
C14_PlaceholderWhenAllAbsent ==
    ucall = "pretty_name" =>
        LET u == uargs.self IN
        /\ uret.tag = "ok"
        /\ pretty_name_option(u) = None <=> AllAbsent(u)
        /\ AllAbsent(u) => uret.value = UNNAMED
        /\ (uret.value = UNNAMED /\ ~AllAbsent(u)) =>
               UNNAMED \in {u.first_name_option, u.last_name_option,
                            u.phone_number_option, u.username_option}

\* C14 witness: a user with none of the four fields got the placeholder
C14_Witness ==
    /\ ucall = "pretty_name"
    /\ AllAbsent(uargs.self)
    /\ uret = Returned(UNNAMED)

\* C15: pretty_name is "first last" when both are present, else the first name, else
\* the last name, else the phone number, else the username, else "[unnamed]",
\* whatever the other fields are: the phone number goes before the username, and
\* neither is looked at when a first or a last name is present.
C15_PriorityOrder ==
    ucall = "pretty_name" =>
        LET first == uargs.self.first_name_option
            last == uargs.self.last_name_option
            phone == uargs.self.phone_number_option
            username == uargs.self.username_option
            name == uret.value
        IN
        /\ (first # None /\ last # None) => name = first \o " " \o last
        /\ (first # None /\ last = None) => name = first
        /\ (first = None /\ last # None) => name = last
        /\ (first = None /\ last = None /\ phone # None) => name = phone
        /\ (first = None /\ last = None /\ phone = None /\ username # None) =>
               name = username
        /\ (first = None /\ last = None /\ phone = None /\ username = None) =>
               name = UNNAMED

\* C15 witness: a user with a phone number and a username but no names is called by
\* the phone number
C15_Witness ==
    /\ ucall = "pretty_name"
    /\ uargs.self.first_name_option = None /\ uargs.self.last_name_option = None
    /\ uargs.self.phone_number_option = "+100" /\ uargs.self.username_option = "ann"
    /\ uret = Returned("+100")

\* the canonical path lies below the root directory
Under(path, root) == starts_with(path, root \o "/")

\* C16 (as claimed): to_relative does not succeed for a path whose canonical form is
\* not below the root (a sibling whose name begins with the root's name, the root
\* itself), and when it succeeds the root joined with the result is the canonical
\* path.
C16_ToRelativeUnderRoot ==
    (ucall = "to_relative" /\ canonicalize(uargs.path).tag = "ok") =>
        LET canonical == canonicalize(uargs.path).value IN
        /\ ~Under(canonical, uargs.self) => uret.tag # "ok"
        /\ uret.tag = "ok" => join(uargs.self, uret.value) = canonical

\* the file references a record stores: its path fields that are present
StoredRefs(rec) ==
    ({rec[f] : f \in DOMAIN rec \cap {"path_option", "thumbnail_path_option",
                                      "vcard_path_option", "img_path_option"}}
     \cup (IF "photo" \in DOMAIN rec /\ rec.photo.present
           THEN {rec.photo.path_option} ELSE {})) \ {None}

\* the record whose references the called helper resolves
ResolvedEntity ==
    IF ucall = "files" THEN uargs.self.typed.content ELSE uargs.self

\* the paths the called helper returned
ReturnedPaths ==
    IF ucall = "files" THEN {uret.value[i] : i \in 1..Len(uret.value)}
    ELSE {uret.value} \ {None}

\* C17: to_absolute panics exactly when its input is absolute and otherwise returns
\* the root joined with the input; files, get_img_path_option and path_file_option
\* return nothing but stored relative references joined onto the root (files: all of
\* them), and panic instead of returning when a reference they resolve is absolute.
C17_ToAbsoluteOnlyRelative ==
    /\ ucall = "to_absolute" =>
           /\ uret.tag = "panic" <=> is_absolute(uargs.path_str)
           /\ ~is_absolute(uargs.path_str) =>
                  uret = Returned(uargs.self \o "/" \o uargs.path_str)
    /\ ucall \in {"files", "get_img_path_option", "path_file_option"} =>
           LET refs == StoredRefs(ResolvedEntity) IN
           /\ uret.tag \in {"ok", "panic"}
           /\ uret.tag = "ok" =>
                  /\ \A q \in ReturnedPaths :
                        \E r \in refs : ~is_absolute(r) /\ q = uargs.ds_root \o "/" \o r
                  /\ ucall = "files" =>
                        ReturnedPaths = {uargs.ds_root \o "/" \o r : r \in refs}
           /\ uret.tag = "panic" =>
                  \/ \E r \in refs : is_absolute(r)
                  \/ ucall = "files" /\ Unreachable(uargs.self.typed)
           /\ (ucall = "files" /\ \E r \in refs : is_absolute(r)) => uret.tag = "panic"

\* C17 witness: the files of a sticker with a path and a thumbnail, both joined onto
\* the root
C17_Witness ==
    /\ ucall = "files"
    /\ uargs.ds_root = "/a/ds"
    /\ uargs.self.typed.content.variant = "Sticker"
    /\ uret = Returned(<<"/a/ds/media/p.jpg", "/a/ds/media/t.jpg">>)

\* the text fields a payload contributes, by name and in the order of the spec; the
\* file name of a File and the title of a GroupMigrateFrom are the two the code adds
PayloadFields(variant) ==
    CASE variant = "Sticker" -> <<"emoji_option">>
      [] variant \in {"Audio", "Video"} -> <<"title_option", "performer_option">>
      [] variant = "File" -> <<"file_name_option">>
      [] variant = "Location" -> <<"address_option", "title_option", "lat_str", "lon_str">>
      [] variant = "Poll" -> <<"question">>
      [] variant = "SharedContact" ->
             <<"first_name_option", "last_name_option", "phone_number_option">>
      [] variant \in {"GroupCreate", "GroupMigrateFrom"} -> <<"title">>
      [] OTHER -> <<>>

\* the present payload texts of a typed, members last
PayloadParts(typed) ==
    LET c == typed.content
        fields == PayloadFields(c.variant)
    IN Flatten([i \in 1..Len(fields) |-> c[fields[i]]])
       \o (IF c.variant \in {"GroupCreate", "GroupInviteMembers", "GroupRemoveMembers",
                             "GroupCall"}
           THEN c.members ELSE <<>>)

\* the non-empty searchable strings of the text, then the payload texts
SearchableParts(text, typed) ==
    NonEmpty(SearchableStrings(text)) \o PayloadParts(typed)

\* a text that is not empty and has no whitespace at either end
Trimmed(x) == x # "" /\ trim(x) = x

\* C18 (as claimed): the searchable_string of a message is the single-space join of
\* the non-empty searchable strings of its RichText elements, in order, followed by
\* the present payload texts in their fixed order.
C18_SearchableStringIsPlainJoin ==
    (ucall = "Message::new" /\ uret.tag = "ok") =>
        uret.value.searchable_string =
            join_str(SearchableParts(uargs.text, uargs.typed), " ")

\* C18 (amended): the searchable_string is that join whenever every present payload
\* text is non-empty and has no whitespace at its ends; in general the joined text
\* and the joined payload texts are each trimmed, an empty one of the two is left
\* out, and the two are joined by one space. A plain message with the normalized
\* text T yields T; no text and a sticker without emoji yield the empty string.
C18_SearchableStringIsTrimmedJoin ==
    (ucall = "Message::new" /\ uret.tag = "ok") =>
        LET parts == NonEmpty(SearchableStrings(uargs.text))
            payload == PayloadParts(uargs.typed)
            result == uret.value.searchable_string
        IN
        /\ (\A i \in 1..Len(payload) : Trimmed(payload[i])) =>
               result = join_str(parts \o payload, " ")
        /\ result = join_str(NonEmpty(<<join_str(parts, " "),
                                        trim(join_str(payload, " "))>>), " ")
        /\ (payload = <<>> /\ Len(parts) = 1) => result = parts[1]
        /\ (payload = <<>> /\ parts = <<>>) => result = ""

\* C18 witness: a message with two text elements, one of them empty, and an audio
\* with a title and no performer
C18_Witness ==
    /\ ucall = "Message::new" /\ uret.tag = "ok"
    /\ SearchableStrings(uargs.text) = <<"", "Hi">>
    /\ uargs.typed.content.variant = "Audio"
    /\ uargs.typed.content.title_option = "Song"
    /\ uargs.typed.content.performer_option = None
    /\ uret.value.searchable_string = "Hi Song"

\* s has no character of the normalized class but the space, no two spaces in a row
\* and no space at either end
Normalized(s) ==
    /\ \A i \in 1..Len(s) : Char(s, i) \notin SeparatorOrFormat \ {" "}
    /\ \A i \in 1..Len(s) - 1 : ~(Char(s, i) = " " /\ Char(s, i + 1) = " ")
    /\ s # "" => Char(s, 1) # " " /\ Char(s, Len(s)) # " "

\* C19 (as claimed): the searchable_string of a message built by Message::new is
\* normalized, in the part that comes from the RichText elements and in the part
\* that comes from the payload.
C19_SearchableStringNormalized ==
    (ucall = "Message::new" /\ uret.tag = "ok") =>
        Normalized(uret.value.searchable_string)

----------------------------------------------------------------------------
(* Properties of the request processor: the locks held during the logic *)

\* C20 (as claimed): a dataset-scoped request whose logic is executing holds the
\* mutex of its dataset and no guard of the registry's RwLock, neither a read guard
\* nor a write guard.
C20_LogicHoldsOnlyDatasetLock ==
    \A t \in Threads :
        Executing(t, key[t]) =>
            /\ Entry(key[t]).locked_by = t
            /\ t \notin rw_readers

\* a dataset-scoped request between its read_or_status and its return
InFlight(t) == kind[t] = "dao" /\ pc[t] \in {"get", "lock", "logic", "stalled"}

\* the keys of the map, in its order
KeySeq(map) == [i \in 1..Len(map) |-> map[i].key]

\* C21: a request in flight holds a read guard of the map, so the map is changed
\* (an entry removed, an entry inserted) only when no dataset-scoped request is in
\* flight; a request whose logic is executing finds its dataset in the map, the
\* entry being the one it locked.
C21_NoRemovalUnderRequest ==
    [][/\ \A t \in Threads : InFlight(t) => t \in rw_readers
       /\ KeySeq(loaded_daos') # KeySeq(loaded_daos) =>
              /\ \A t \in Threads : ~InFlight(t)
              /\ \E u \in Threads : kind[u] \in {"load", "unload"} /\ pc[u] = "write"
       /\ \A t \in Threads :
             (InFlight(t) /\ pc[t] \in {"logic", "stalled"}) =>
                 /\ key[t] \in KeysOf(loaded_daos)
                 /\ \E i \in 1..Len(loaded_daos) :
                       loaded_daos[i].key = key[t] /\ loaded_daos[i].locked_by = t]_vars

\* C21 witness: an unload of a key waits for the write guard while the logic of a
\* request runs on that key
C21_Witness ==
    \E t, u \in Threads :
        /\ kind[t] = "dao" /\ pc[t] = "logic"
        /\ kind[u] = "unload" /\ pc[u] = "write" /\ key[u] = key[t]
        /\ key[t] \in KeysOf(loaded_daos)

\* C22: when a dataset-scoped request returns (Ok or an error of its logic, or
\* NotLoaded) it holds neither a guard of the map nor a dataset mutex, nothing got
\* poisoned, and the keys of the map and their order are as before; a request that
\* found its dataset invoked its logic exactly once and leaves the mutex free and
\* unpoisoned; one that did not find it invoked no logic.
C22_ExitReleasesEverything ==
    [][\A t \in Threads :
          (kind[t] = "dao" /\ pc[t] \in {"get", "logic"} /\ pc'[t] = "done") =>
              /\ t \notin rw_readers'
              /\ \A i \in 1..Len(loaded_daos') : loaded_daos'[i].locked_by # t
              /\ ~rw_poisoned'
              /\ KeySeq(loaded_daos') = KeySeq(loaded_daos)
              /\ \A i \in 1..Len(loaded_daos) :
                    loaded_daos'[i].poisoned = loaded_daos[i].poisoned
              /\ IF pc[t] = "logic"
                 THEN /\ calls'[t] = 1
                      /\ status'[t].code \in {"Ok", "Internal"}
                      /\ \E i \in 1..Len(loaded_daos') :
                            /\ loaded_daos'[i].key = key[t]
                            /\ loaded_daos'[i].locked_by = NoThread
                            /\ ~loaded_daos'[i].poisoned
                 ELSE /\ calls'[t] = 0
                      /\ status'[t].code = "FailedPrecondition"]_vars

\* C22 witness: a request ended with an error of its logic, and a following request
\* on the same key is running its logic
C22_Witness ==
    \E t, u \in Threads :
        /\ kind[t] = "dao" /\ pc[t] = "done" /\ calls[t] = 1
        /\ status[t].code = "Internal"
        /\ kind[u] = "dao" /\ pc[u] = "logic" /\ key[u] = key[t]
        /\ t \notin rw_readers

\* the thread t holds the mutex of some dataset of the map
HoldsMutex(map, t) == \E i \in 1..Len(map) : map[i].locked_by = t

\* C23: a request takes the read guard of the map only while it holds no dataset
\* mutex and takes a dataset mutex only under that guard; a writer of the map and a
\* dataset-free request hold no mutex, the latter no guard either; and when no logic
\* panics or stalls and every thread that can go on is run, every request that was
\* accepted returns.
C23_EveryRequestReturns ==
    /\ [][\A t \in Threads :
             /\ (t \notin rw_readers /\ t \in rw_readers') => ~HoldsMutex(loaded_daos, t)
             /\ (~HoldsMutex(loaded_daos, t) /\ HoldsMutex(loaded_daos', t)) =>
                    t \in rw_readers /\ kind[t] = "dao"
             /\ kind'[t] \in {"free", "load", "unload"} =>
                    ~HoldsMutex(loaded_daos', t) /\ t \notin rw_readers']_vars
    /\ [](\A t \in Threads :
            pc[t] \in {"read", "get", "lock", "logic", "write"} => <>(pc[t] = "done"))

\* C23 witness: a dataset-scoped request, a dataset-free one and a writer of the map
\* ran on the three threads and all returned; the dataset-scoped one ran its logic
C23_Witness ==
    \E t, u, v \in Threads :
        /\ pc[t] = "done" /\ pc[u] = "done" /\ pc[v] = "done"
        /\ kind[t] = "dao" /\ calls[t] = 1 /\ status[t].code = "Ok"
        /\ kind[u] = "free"
        /\ kind[v] = "unload" /\ key[v] = key[t] /\ status[v].code = "Ok"
        /\ requests = MaxRequests

====
